---- MODULE Spec2Model ----
(***************************************************************************)
(* Model of the Kalshi market data collector:                              *)
(*   src/app/market_collector.py   MarketCollector                          *)
(*   src/database/database_client.py   DatabaseClient                       *)
(* One cycle is one call of MarketCollector.get_events_dataframe: the      *)
(* pagination loop, the flattening of events into market rows, and the     *)
(* reconciliation of those rows against the "markets" table.               *)
(***************************************************************************)
EXTENDS Integers, Sequences, FiniteSets, TLC

(* ------------------------------ bounds --------------------------------- *)
\* page requests one cycle may make before the model stops following it
MaxPages == 2
\* runs of main.py by the scheduler on one listing (the first and its reruns)
MaxCycles == 2
\* rows of the table left by earlier cycles when the model starts
MaxSeed == 2

\* collector processes that can be pointed at the same table
Procs == {1, 2}
\* the single scheduled collector of main.py
Sequential == {1}

Tickers == {"T1", "T2"}
EventTickers == {"E1", "E2"}
\* "initialized" stands for any status outside "active" and CLOSED_STATUSES
Statuses == {"active", "settled", "initialized"}
\* python None
None == "None"
\* response.get('cursor'): absent (None), empty, or a continuation token
Cursors == {None, "", "c1"}
\* value of datetime.now(timezone.utc).isoformat()
Now == "ts"

CLOSED_STATUSES == {"finalized", "inactive", "closed", "settled"}

SeqUpTo(S, n) == UNION {[1..k -> S] : k \in 0..n}

Market == [ticker : Tickers, status : Statuses]
\* an event of the listing: no market or one
Event == [event_ticker : EventTickers, markets : {<<>>} \cup {<<m>> : m \in Market}]
\* one page of the listing endpoint: no event or one, and the next cursor
Response == [events : {<<>>} \cup {<<e>> : e \in Event}, cursor : Cursors]

\* python truthiness of a cursor: `if cursor:` / `while cursor:`
Truthy(c) == c \notin {None, ""}

(* ------------------------------ flattening ------------------------------ *)
\* pd.json_normalize(events, record_path=['markets'], meta=[...]):
\* one row per nested market, in event order then market order
RECURSIVE json_normalize(_)
json_normalize(evs) ==
  IF evs = <<>> THEN <<>>
  ELSE LET e == Head(evs) IN
       [i \in 1..Len(e.markets) |->
          [market_ticker |-> e.markets[i].ticker,
           market_status |-> e.markets[i].status,
           event_event_ticker |-> e.event_ticker]]
       \o json_normalize(Tail(evs))

FlatRow(m, ev_ticker) ==
  [market_ticker |-> m.market_ticker,
   market_status |-> m.market_status,
   event_event_ticker |-> m.event_event_ticker,
   event_ticker |-> ev_ticker,
   market_status_change_time |-> None]

\* markets_df.merge(events_df, left_on='event_event_ticker',
\*                  right_on='event_ticker', how='left'):
\* every left row paired with every right row of the same key, in right
\* order; a left row without a match is kept once with null right columns
RECURSIVE merge(_, _)
merge(left, right) ==
  IF left = <<>> THEN <<>>
  ELSE LET m == Head(left)
           matches == SelectSeq(right, LAMBDA e : e.event_ticker = m.event_event_ticker)
       IN (IF matches = <<>>
           THEN << FlatRow(m, None) >>
           ELSE [j \in 1..Len(matches) |-> FlatRow(m, matches[j].event_ticker)])
          \o merge(Tail(left), right)

\* lines 69-90: the in-memory table of the cycle
Flatten(evs) == merge(json_normalize(evs), evs)

(* ------------------------------ the store ------------------------------- *)
\* set(df["market_ticker"].dropna().unique())
TickersOf(rows) == {rows[i].market_ticker : i \in 1..Len(rows)}

\* dict(zip(df["market_ticker"], df["market_status"])): the last row of a
\* ticker wins; .get(ticker) of a missing ticker is None
StatusMapGet(rows, t) ==
  IF t \in TickersOf(rows)
  THEN LET last == CHOOSE i \in 1..Len(rows) :
                     /\ rows[i].market_ticker = t
                     /\ \A j \in (i+1)..Len(rows) : rows[j].market_ticker # t
       IN rows[last].market_status
  ELSE None

\* DELETE FROM markets WHERE market_ticker = :ticker
\* a DELETE that stops after the first matching row
DeleteRowsFirst(rows, t) ==
  LET hits == {i \in 1..Len(rows) : rows[i].market_ticker = t}
  IN IF hits = {} THEN rows
     ELSE LET k == CHOOSE i \in hits : \A j \in hits : i <= j
          IN SubSeq(rows, 1, k - 1) \o SubSeq(rows, k + 1, Len(rows))
DeleteRows(rows, t) == SelectSeq(rows, LAMBDA r : r.market_ticker # t)

\* rows a table can hold when the model starts: what earlier cycles append
\* (rows of new_active: status "active", no change time), here of event E1
SeedRow == [market_ticker : Tickers, market_status : {"active"},
            event_event_ticker : {"E1"}, event_ticker : {"E1"},
            market_status_change_time : {None}]
SeedStores == SeqUpTo(SeedRow, MaxSeed)

\* status_map = db.get_market_status_map()
StatusMap(rows) == [t \in TickersOf(rows) |-> StatusMapGet(rows, t)]

\* status_map.get(ticker)
DictGet(m, t) == IF t \in DOMAIN m THEN m[t] ELSE None

(* ------------------------------- state ---------------------------------- *)
VARIABLES
  store,          \* rows of the "markets" table, in insertion order
  tableExists,    \* insp.has_table("markets")
  pc,             \* per process: position in get_events_dataframe
  cycle,          \* per process: number of the running cycle
  cursor,         \* local `cursor`
  events,         \* local `events`
  df,             \* local `df`
  existing,       \* local `existing`
  status_map,     \* local `status_map`
  new_active,     \* local `new_active`
  opened_count,   \* local `opened_count`
  closed_count,   \* local `closed_count`
  idx,            \* position of the closure loop in df.iterrows()
  total_active,   \* local `total_active`
  raised,         \* the call that raised out of the cycle, or None
  script,         \* responses the listing endpoint is bound to repeat
  reqs,           \* history: cursor parameter of each page request
  resps,          \* history: response of each answered page request
  store0,         \* history: the table when the cycle started
  table0,         \* history: whether the table existed when the cycle started
  calls,          \* history: DatabaseClient calls of the cycle
  deleted,        \* history: tickers passed to a completed delete_market
  base            \* history: the table before the cycle being retried

locals == <<pc, cycle, cursor, events, df, existing, status_map, new_active,
            opened_count, closed_count, idx, total_active, raised>>
history == <<script, reqs, resps, store0, table0, calls, deleted, base>>
vars == <<store, tableExists, locals, history>>

\* the first run of main.py follows no run
NoBase == [store |-> <<>>, raised |-> "no run"]

Call(op, arg, ok) == [op |-> op, arg |-> arg, ok |-> ok]

Init ==
  /\ store \in SeedStores
  /\ tableExists \in {b \in BOOLEAN : store # <<>> => b}
  /\ pc = [p \in Procs |-> "start"]
  /\ cycle = [p \in Procs |-> 1]
  /\ cursor = [p \in Procs |-> None]
  /\ events = [p \in Procs |-> <<>>]
  /\ df = [p \in Procs |-> <<>>]
  /\ existing = [p \in Procs |-> {}]
  /\ status_map = [p \in Procs |-> << >>]
  /\ new_active = [p \in Procs |-> <<>>]
  /\ opened_count = [p \in Procs |-> 0]
  /\ closed_count = [p \in Procs |-> 0]
  /\ idx = [p \in Procs |-> 1]
  /\ total_active = [p \in Procs |-> None]
  /\ raised = [p \in Procs |-> None]
  /\ script = [p \in Procs |-> <<>>]
  /\ reqs = [p \in Procs |-> <<>>]
  /\ resps = [p \in Procs |-> <<>>]
  /\ store0 = [p \in Procs |-> store]
  /\ table0 = [p \in Procs |-> tableExists]
  /\ calls = [p \in Procs |-> <<>>]
  /\ deleted = [p \in Procs |-> <<>>]
  /\ base = [p \in Procs |-> NoBase]

(* ------------------------------ pagination ------------------------------ *)
\* get_open_events never sending the cursor it was given
RequestCursorDropped(c) == None

\* get_open_events: the cursor parameter is sent only when truthy
RequestCursor(c) == IF Truthy(c) THEN c ELSE None

\* what the endpoint may answer to the next request of p
Answers(p) == IF script[p] # <<>> THEN {Head(script[p])} ELSE Response

\* lines 57-59: the first page, requested without a cursor
FetchFirst(p) ==
  /\ pc[p] = "start"
  /\ \E r \in Answers(p) :
       /\ reqs' = [reqs EXCEPT ![p] = Append(@, RequestCursor(None))]
       /\ resps' = [resps EXCEPT ![p] = Append(@, r)]
       /\ events' = [events EXCEPT ![p] = r.events]
       /\ cursor' = [cursor EXCEPT ![p] = r.cursor]
       /\ pc' = [pc EXCEPT ![p] = IF Truthy(r.cursor) THEN "paginate" ELSE "normalize"]
  /\ script' = [script EXCEPT ![p] = IF @ = <<>> THEN @ ELSE Tail(@)]
  /\ store0' = [store0 EXCEPT ![p] = store]
  /\ table0' = [table0 EXCEPT ![p] = tableExists]
  /\ UNCHANGED <<store, tableExists, cycle, df, existing, status_map, new_active,
                 opened_count, closed_count, idx, total_active, raised,
                 calls, deleted, base>>

\* lines 62-67: one iteration of `while cursor:`
FetchNext(p) ==
  /\ pc[p] = "paginate"
  /\ Truthy(cursor[p])
  /\ Len(reqs[p]) < MaxPages
  /\ \E r \in Answers(p) :
       /\ reqs' = [reqs EXCEPT ![p] = Append(@, RequestCursor(cursor[p]))]
       /\ resps' = [resps EXCEPT ![p] = Append(@, r)]
       /\ events' = [events EXCEPT ![p] = @ \o r.events]
       /\ cursor' = [cursor EXCEPT ![p] = r.cursor]
       /\ pc' = [pc EXCEPT ![p] = IF Truthy(r.cursor) THEN "paginate" ELSE "normalize"]
  /\ script' = [script EXCEPT ![p] = IF @ = <<>> THEN @ ELSE Tail(@)]
  /\ UNCHANGED <<store, tableExists, cycle, df, existing, status_map, new_active,
                 opened_count, closed_count, idx, total_active, raised,
                 store0, table0, calls, deleted, base>>

\* the same failure with the DatabaseClient built before the fetch
FetchFailConnected(p) ==
  /\ pc[p] \in {"start", "paginate"}
  /\ Len(reqs[p]) < MaxPages
  /\ reqs' = [reqs EXCEPT ![p] = Append(@, RequestCursor(cursor[p]))]
  /\ raised' = [raised EXCEPT ![p] = "get_open_events"]
  /\ store0' = [store0 EXCEPT ![p] = IF pc[p] = "start" THEN store ELSE @]
  /\ table0' = [table0 EXCEPT ![p] = IF pc[p] = "start" THEN tableExists ELSE @]
  /\ tableExists' = TRUE
  /\ pc' = [pc EXCEPT ![p] = "failed"]
  /\ UNCHANGED <<store, cycle, cursor, events, df, existing, status_map,
                 new_active, opened_count, closed_count, idx, total_active,
                 script, resps, calls, deleted, base>>

\* lines 47-48: session.get or resp.raise_for_status() raises
FetchFail(p) ==
  /\ pc[p] \in {"start", "paginate"}
  /\ Len(reqs[p]) < MaxPages
  /\ reqs' = [reqs EXCEPT ![p] = Append(@, RequestCursor(cursor[p]))]
  /\ raised' = [raised EXCEPT ![p] = "get_open_events"]
  /\ store0' = [store0 EXCEPT ![p] = IF pc[p] = "start" THEN store ELSE @]
  /\ table0' = [table0 EXCEPT ![p] = IF pc[p] = "start" THEN tableExists ELSE @]
  /\ pc' = [pc EXCEPT ![p] = "failed"]
  /\ UNCHANGED <<store, tableExists, cycle, cursor, events, df, existing, status_map,
                 new_active, opened_count, closed_count, idx, total_active,
                 script, resps, calls, deleted, base>>

(* ------------------------------ flattening ------------------------------ *)
\* lines 69-90; with no market row at all the column selection of line 85
\* (or the merge key of line 79) raises KeyError
Normalize(p) ==
  /\ pc[p] = "normalize"
  /\ IF json_normalize(events[p]) = <<>>
     THEN /\ raised' = [raised EXCEPT ![p] = "normalize"]
          /\ pc' = [pc EXCEPT ![p] = "failed"]
          /\ df' = df
     ELSE /\ df' = [df EXCEPT ![p] = Flatten(events[p])]
          /\ pc' = [pc EXCEPT ![p] = "connect"]
          /\ raised' = raised
  /\ UNCHANGED <<store, tableExists, cycle, cursor, events, existing, status_map,
                 new_active, opened_count, closed_count, idx, total_active, history>>

(* ---------------------------- reconciliation ---------------------------- *)
\* lines 92-94: DatabaseClient.__init__, _ensure_table creates the table
Connect(p) ==
  /\ pc[p] = "connect"
  /\ tableExists' = TRUE
  /\ calls' = [calls EXCEPT ![p] = Append(@, Call("_ensure_table", None, TRUE))]
  /\ pc' = [pc EXCEPT ![p] = "read"]
  /\ UNCHANGED <<store, cycle, cursor, events, df, existing, status_map, new_active,
                 opened_count, closed_count, idx, total_active, raised,
                 script, reqs, resps, store0, table0, deleted, base>>

\* get_existing_market_tickers never seeing the table
get_existing_market_tickers_empty == {}

\* DatabaseClient.get_existing_market_tickers
get_existing_market_tickers == IF tableExists THEN TickersOf(store) ELSE {}

\* DatabaseClient.get_market_status_map
get_market_status_map == IF tableExists THEN StatusMap(store) ELSE << >>

\* lines 96-100
ReadExisting(p) ==
  /\ pc[p] = "read"
  /\ existing' = [existing EXCEPT ![p] = get_existing_market_tickers]
  /\ status_map' = [status_map EXCEPT ![p] = get_market_status_map]
  /\ calls' = [calls EXCEPT ![p] = @ \o << Call("get_existing_market_tickers", None, TRUE),
                                           Call("get_market_status_map", None, TRUE) >>]
  /\ pc' = [pc EXCEPT ![p] = "insert"]
  /\ UNCHANGED <<store, tableExists, cycle, cursor, events, df, new_active,
                 opened_count, closed_count, idx, total_active, raised,
                 script, reqs, resps, store0, table0, deleted, base>>

\* line 103 without the status test
NewActiveAnyStatus(d, ex) ==
  SelectSeq(d, LAMBDA r : r.market_ticker \notin ex)

\* line 103 without the test against the existing tickers
NewActiveReinserting(d, ex) ==
  SelectSeq(d, LAMBDA r : r.market_status = "active")

\* line 103: df[~df['market_ticker'].isin(existing) & df['market_status'].eq('active')]
NewActive(d, ex) ==
  SelectSeq(d, LAMBDA r : r.market_ticker \notin ex /\ r.market_status = "active")

\* the insert pass followed by a second read of the ticker set and the status
\* map, so that the closure pass decides on the table as the append left it
InsertPassThenRead(p) ==
  /\ pc[p] = "insert"
  /\ LET na == NewActive(df[p], existing[p]) IN
       /\ new_active' = [new_active EXCEPT ![p] = na]
       /\ opened_count' = [opened_count EXCEPT ![p] = Len(na)]
       /\ store' = store \o na
       /\ existing' = [existing EXCEPT ![p] = TickersOf(store \o na)]
       /\ status_map' = [status_map EXCEPT ![p] = StatusMap(store \o na)]
       /\ calls' = [calls EXCEPT ![p] =
                      (IF Len(na) # 0 THEN Append(@, Call("append_dataframe", na, TRUE)) ELSE @)
                      \o << Call("get_existing_market_tickers", None, TRUE),
                            Call("get_market_status_map", None, TRUE) >>]
  /\ pc' = [pc EXCEPT ![p] = "closure"]
  /\ UNCHANGED <<tableExists, cycle, cursor, events, df,
                 closed_count, idx, total_active, raised,
                 script, reqs, resps, store0, table0, deleted, base>>

\* an insert pass that holds a lock on the table: it selects against the
\* tickers stored at the moment of the append
InsertPassLocked(p) ==
  /\ pc[p] = "insert"
  /\ LET na == NewActive(df[p], existing[p] \cup TickersOf(store)) IN
       /\ new_active' = [new_active EXCEPT ![p] = na]
       /\ opened_count' = [opened_count EXCEPT ![p] = Len(na)]
       /\ IF Len(na) # 0
          THEN /\ store' = store \o na
               /\ calls' = [calls EXCEPT ![p] = Append(@, Call("append_dataframe", na, TRUE))]
          ELSE UNCHANGED <<store, calls>>
  /\ pc' = [pc EXCEPT ![p] = "closure"]
  /\ UNCHANGED <<tableExists, cycle, cursor, events, df, existing, status_map,
                 closed_count, idx, total_active, raised,
                 script, reqs, resps, store0, table0, deleted, base>>

\* lines 102-107, append_dataframe succeeding (or not called: nothing to insert)
InsertPass(p) ==
  /\ pc[p] = "insert"
  /\ LET na == NewActive(df[p], existing[p]) IN
       /\ new_active' = [new_active EXCEPT ![p] = na]
       /\ opened_count' = [opened_count EXCEPT ![p] = Len(na)]
       /\ IF Len(na) # 0
          THEN /\ store' = store \o na
               /\ calls' = [calls EXCEPT ![p] = Append(@, Call("append_dataframe", na, TRUE))]
          ELSE UNCHANGED <<store, calls>>
  /\ pc' = [pc EXCEPT ![p] = "closure"]
  /\ UNCHANGED <<tableExists, cycle, cursor, events, df, existing, status_map,
                 closed_count, idx, total_active, raised,
                 script, reqs, resps, store0, table0, deleted, base>>

\* lines 81-87: df.to_sql raises; its transaction leaves no row behind
AppendFail(p) ==
  /\ pc[p] = "insert"
  /\ LET na == NewActive(df[p], existing[p]) IN
       /\ Len(na) # 0
       /\ new_active' = [new_active EXCEPT ![p] = na]
       /\ opened_count' = [opened_count EXCEPT ![p] = Len(na)]
       /\ calls' = [calls EXCEPT ![p] = Append(@, Call("append_dataframe", na, FALSE))]
  /\ raised' = [raised EXCEPT ![p] = "append_dataframe"]
  /\ pc' = [pc EXCEPT ![p] = "failed"]
  /\ UNCHANGED <<store, tableExists, cycle, cursor, events, df, existing, status_map,
                 closed_count, idx, total_active,
                 script, reqs, resps, store0, table0, deleted, base>>

\* line 114 without the test of the fetched status
ClosesAnyStatus(p, row) ==
  /\ row.market_ticker \in existing[p]
  /\ DictGet(status_map[p], row.market_ticker) = "active"

\* line 114 deciding on the table as it is after the insert pass
ClosesOnLiveStore(p, row) ==
  /\ row.market_ticker \in TickersOf(store)
  /\ StatusMapGet(store, row.market_ticker) = "active"
  /\ row.market_status \in CLOSED_STATUSES

\* line 114
Closes(p, row) ==
  /\ row.market_ticker \in existing[p]
  /\ DictGet(status_map[p], row.market_ticker) = "active"
  /\ row.market_status \in CLOSED_STATUSES

\* line 116: df.loc[df['market_ticker'] == ticker, 'market_status_change_time'] = change_time
Stamp(d, t) ==
  [i \in 1..Len(d) |->
     IF d[i].market_ticker = t
     THEN [d[i] EXCEPT !.market_status_change_time = Now]
     ELSE d[i]]

\* a closure step that writes the stamp to the stored rows of the ticker
\* instead of deleting them
ClosureStepStamping(p) ==
  /\ pc[p] = "closure"
  /\ idx[p] <= Len(df[p])
  /\ LET row == df[p][idx[p]] IN
       IF Closes(p, row)
       THEN /\ df' = [df EXCEPT ![p] = Stamp(@, row.market_ticker)]
            /\ store' = Stamp(store, row.market_ticker)
            /\ calls' = [calls EXCEPT ![p] = Append(@, Call("delete_market", row.market_ticker, TRUE))]
            /\ deleted' = [deleted EXCEPT ![p] = Append(@, row.market_ticker)]
            /\ closed_count' = [closed_count EXCEPT ![p] = @ + 1]
       ELSE UNCHANGED <<df, store, calls, deleted, closed_count>>
  /\ idx' = [idx EXCEPT ![p] = @ + 1]
  /\ UNCHANGED <<tableExists, pc, cycle, cursor, events, existing, status_map,
                 new_active, opened_count, total_active, raised,
                 script, reqs, resps, store0, table0, base>>

\* lines 111-118: one iteration of `for _, row in df.iterrows()`
ClosureStep(p) ==
  /\ pc[p] = "closure"
  /\ idx[p] <= Len(df[p])
  /\ LET row == df[p][idx[p]] IN
       IF Closes(p, row)
       THEN /\ df' = [df EXCEPT ![p] = Stamp(@, row.market_ticker)]
            /\ store' = DeleteRows(store, row.market_ticker)
            /\ calls' = [calls EXCEPT ![p] = Append(@, Call("delete_market", row.market_ticker, TRUE))]
            /\ deleted' = [deleted EXCEPT ![p] = Append(@, row.market_ticker)]
            /\ closed_count' = [closed_count EXCEPT ![p] = @ + 1]
       ELSE UNCHANGED <<df, store, calls, deleted, closed_count>>
  /\ idx' = [idx EXCEPT ![p] = @ + 1]
  /\ UNCHANGED <<tableExists, pc, cycle, cursor, events, existing, status_map,
                 new_active, opened_count, total_active, raised,
                 script, reqs, resps, store0, table0, base>>

\* delete_market logging its failure without re-raising: the loop goes on
DeleteFailSwallowed(p) ==
  /\ pc[p] = "closure"
  /\ idx[p] <= Len(df[p])
  /\ LET row == df[p][idx[p]] IN
       /\ Closes(p, row)
       /\ df' = [df EXCEPT ![p] = Stamp(@, row.market_ticker)]
       /\ calls' = [calls EXCEPT ![p] = Append(@, Call("delete_market", row.market_ticker, FALSE))]
  /\ closed_count' = [closed_count EXCEPT ![p] = @ + 1]
  /\ idx' = [idx EXCEPT ![p] = @ + 1]
  /\ UNCHANGED <<store, tableExists, pc, cycle, cursor, events, existing, status_map,
                 new_active, opened_count, total_active, raised,
                 script, reqs, resps, store0, table0, deleted, base>>

\* lines 89-103: delete_market raises, after the row was stamped
DeleteFail(p) ==
  /\ pc[p] = "closure"
  /\ idx[p] <= Len(df[p])
  /\ LET row == df[p][idx[p]] IN
       /\ Closes(p, row)
       /\ df' = [df EXCEPT ![p] = Stamp(@, row.market_ticker)]
       /\ calls' = [calls EXCEPT ![p] = Append(@, Call("delete_market", row.market_ticker, FALSE))]
  /\ raised' = [raised EXCEPT ![p] = "delete_market"]
  /\ pc' = [pc EXCEPT ![p] = "failed"]
  /\ UNCHANGED <<store, tableExists, cycle, cursor, events, existing, status_map,
                 new_active, opened_count, closed_count, idx, total_active,
                 script, reqs, resps, store0, table0, deleted, base>>

\* a summary that reports the ticker set read before the two passes
SummaryStale(p) ==
  /\ pc[p] = "closure"
  /\ idx[p] > Len(df[p])
  /\ total_active' = [total_active EXCEPT ![p] = Cardinality(existing[p])]
  /\ calls' = [calls EXCEPT ![p] = Append(@, Call("summary", None, TRUE))]
  /\ pc' = [pc EXCEPT ![p] = "done"]
  /\ UNCHANGED <<store, tableExists, cycle, cursor, events, df, existing, status_map,
                 new_active, opened_count, closed_count, idx, raised,
                 script, reqs, resps, store0, table0, deleted, base>>

\* lines 120-128
Summary(p) ==
  /\ pc[p] = "closure"
  /\ idx[p] > Len(df[p])
  /\ total_active' = [total_active EXCEPT ![p] = Cardinality(get_existing_market_tickers)]
  /\ calls' = [calls EXCEPT ![p] = Append(@, Call("summary", None, TRUE))]
  /\ pc' = [pc EXCEPT ![p] = "done"]
  /\ UNCHANGED <<store, tableExists, cycle, cursor, events, df, existing, status_map,
                 new_active, opened_count, closed_count, idx, raised,
                 script, reqs, resps, store0, table0, deleted, base>>

(* ------------------------------ scheduling ------------------------------ *)
\* a fresh call of get_events_dataframe: every local starts over
Restart(p, replay, before) ==
  /\ pc' = [pc EXCEPT ![p] = "start"]
  /\ cycle' = [cycle EXCEPT ![p] = @ + 1]
  /\ cursor' = [cursor EXCEPT ![p] = None]
  /\ events' = [events EXCEPT ![p] = <<>>]
  /\ df' = [df EXCEPT ![p] = <<>>]
  /\ existing' = [existing EXCEPT ![p] = {}]
  /\ status_map' = [status_map EXCEPT ![p] = << >>]
  /\ new_active' = [new_active EXCEPT ![p] = <<>>]
  /\ opened_count' = [opened_count EXCEPT ![p] = 0]
  /\ closed_count' = [closed_count EXCEPT ![p] = 0]
  /\ idx' = [idx EXCEPT ![p] = 1]
  /\ total_active' = [total_active EXCEPT ![p] = None]
  /\ raised' = [raised EXCEPT ![p] = None]
  /\ script' = [script EXCEPT ![p] = replay]
  /\ reqs' = [reqs EXCEPT ![p] = <<>>]
  /\ resps' = [resps EXCEPT ![p] = <<>>]
  /\ store0' = [store0 EXCEPT ![p] = store]
  /\ table0' = [table0 EXCEPT ![p] = tableExists]
  /\ calls' = [calls EXCEPT ![p] = <<>>]
  /\ deleted' = [deleted EXCEPT ![p] = <<>>]
  /\ base' = [base EXCEPT ![p] = before]
  /\ UNCHANGED <<store, tableExists>>

\* main.py run again by the external scheduler while the endpoint lists what
\* it listed to the run before (which got past its pagination loop)
Rerun(p) ==
  /\ pc[p] \in {"done", "failed"}
  /\ raised[p] \in {None, "append_dataframe", "delete_market"}
  /\ cycle[p] < MaxCycles
  /\ Restart(p, resps[p], [store |-> store0[p], raised |-> raised[p]])

Next ==
  \E p \in Sequential :
    \/ FetchFirst(p)
    \/ FetchNext(p)
    \/ FetchFail(p)
    \/ Normalize(p)
    \/ Connect(p)
    \/ ReadExisting(p)
    \/ InsertPass(p)
    \/ AppendFail(p)
    \/ ClosureStep(p)
    \/ DeleteFail(p)
    \/ Summary(p)

\* one run of main.py on a table left by earlier runs
Spec == Init /\ [][Next]_vars

NextRetry == Next \/ \E p \in Sequential : Rerun(p)

\* the same, run again by the scheduler on an unchanged listing
SpecRetry == Init /\ [][NextRetry]_vars

\* the database file does not exist yet: no table, no rows, nothing run
InitEmpty ==
  /\ Init
  /\ store = <<>>
  /\ ~tableExists

\* main.py run again by the external scheduler, on whatever the endpoint
\* lists by then
NewCycle(p) ==
  /\ pc[p] \in {"done", "failed"}
  /\ cycle[p] < MaxCycles
  /\ Restart(p, <<>>, NoBase)

NextCycles == Next \/ \E p \in Sequential : NewCycle(p)

SpecCycles == InitEmpty /\ [][NextCycles]_vars

\* the steps of a cycle after its pagination loop
AfterFetch(p) ==
  \/ Normalize(p)
  \/ Connect(p)
  \/ ReadExisting(p)
  \/ InsertPass(p)
  \/ AppendFail(p)
  \/ ClosureStep(p)
  \/ DeleteFail(p)
  \/ Summary(p)

\* the endpoint lists no market twice in a cycle: the flattened rows of what
\* a cycle has fetched so far have unique tickers
UniqueListing(evs) ==
  LET d == Flatten(evs)
  IN \A i, j \in 1..Len(d) : d[i].market_ticker = d[j].market_ticker => i = j

FetchFirstUnique(p) == FetchFirst(p) /\ UniqueListing(events'[p])

FetchNextUnique(p) == FetchNext(p) /\ UniqueListing(events'[p])

NextUnique ==
  \E p \in Sequential :
    \/ FetchFirstUnique(p)
    \/ FetchNextUnique(p)
    \/ FetchFail(p)
    \/ AfterFetch(p)
    \/ NewCycle(p)

\* one collector run again and again from the empty database, on listings
\* that show no market twice
SpecUnique == InitEmpty /\ [][NextUnique]_vars

\* a second run of main.py started while the first is still running: the
\* endpoint lists to it what it listed to the first
SameListing(p, q) ==
  /\ pc[p] = "normalize"
  /\ pc[q] = "start"
  /\ script[q] = <<>>
  /\ script' = [script EXCEPT ![q] = resps[p]]
  /\ UNCHANGED <<store, tableExists, locals, reqs, resps, store0, table0,
                 calls, deleted, base>>

Started(q) == pc[q] # "start" \/ script[q] # <<>>

\* the first request of the second run, answered or failing
SecondFetchFirst(q) == Started(q) /\ FetchFirst(q)

SecondFetchFail(q) == Started(q) /\ FetchFail(q)

\* two runs on the same database file; nothing in the code orders their steps
NextConcurrent ==
  \/ \E p \in Sequential :
       \/ FetchFirstUnique(p)
       \/ FetchNextUnique(p)
       \/ FetchFail(p)
       \/ AfterFetch(p)
  \/ \E p \in Sequential, q \in Procs \ Sequential : SameListing(p, q)
  \/ \E q \in Procs \ Sequential :
       \/ SecondFetchFirst(q)
       \/ FetchNext(q)
       \/ SecondFetchFail(q)
       \/ AfterFetch(q)

\* two overlapping runs of main.py on a table left by earlier runs, on a
\* listing that shows no market twice
SpecConcurrent == Init /\ [][NextConcurrent]_vars

TypeOK ==
  /\ tableExists \in BOOLEAN
  /\ \A p \in Procs :
       /\ pc[p] \in {"start", "paginate", "normalize", "connect", "read", "insert",
                     "closure", "done", "failed"}
       /\ cycle[p] \in 1..MaxCycles
       /\ cursor[p] \in Cursors

(* ------------------------------ properties ------------------------------ *)
Range(f) == {f[i] : i \in DOMAIN f}

RECURSIVE Concat(_)
Concat(ss) == IF ss = <<>> THEN <<>> ELSE Head(ss) \o Concat(Tail(ss))

\* the rows the cycle of p fetched, as flattened (before any stamping)
Fetched(p) == Flatten(events[p])

\* the rows handed to the append_dataframe calls of the cycle that returned
Appended(p) ==
  Concat([i \in 1..Len(calls[p]) |->
            IF calls[p][i].op = "append_dataframe" /\ calls[p][i].ok
            THEN calls[p][i].arg ELSE <<>>])

RowsOf(rows, t) == SelectSeq(rows, LAMBDA r : r.market_ticker = t)

UniqueTickers(rows) ==
  \A i, j \in 1..Len(rows) : rows[i].market_ticker = rows[j].market_ticker => i = j

\* the insert pass of the cycle of p is over
InsertDone(p) ==
  \/ pc[p] \in {"closure", "done"}
  \/ pc[p] = "failed" /\ raised[p] = "delete_market"

\* tickers the fetch lists with a status outside / inside CLOSED_STATUSES
FetchedOpen(p) ==
  {r.market_ticker : r \in {x \in Range(Fetched(p)) : x.market_status \notin CLOSED_STATUSES}}
FetchedClosed(p) ==
  {r.market_ticker : r \in {x \in Range(Fetched(p)) : x.market_status \in CLOSED_STATUSES}}

\* C1 (as claimed): after a completed cycle every ticker stored "active" at
\* cycle start that is missing from the fetch's non-CLOSED rows, or fetched
\* with a CLOSED status, is gone from the table and counted in closed_count.
C1_StaleActiveDeleted ==
  \A p \in Procs :
    pc[p] = "done" =>
      \A t \in TickersOf(store0[p]) :
        ( /\ StatusMapGet(store0[p], t) = "active"
          /\ (t \notin FetchedOpen(p) \/ t \in FetchedClosed(p)) )
        => /\ t \notin TickersOf(store)
           /\ t \in Range(deleted[p])
           /\ closed_count[p] = Len(deleted[p])

\* C2: once the insert pass is over, the rows appended are exactly the fetched
\* rows whose ticker was not stored at cycle start and whose status is "active",
\* in fetch order, and opened_count is their number.
C2_InsertSelectivity ==
  \A p \in Procs :
    InsertDone(p) =>
      LET sel == SelectSeq(Fetched(p),
                   LAMBDA r : /\ r.market_ticker \notin TickersOf(store0[p])
                              /\ r.market_status = "active")
      IN /\ Appended(p) = sel
         /\ opened_count[p] = Len(sel)

\* a completed cycle that appended one fetched row and left out another, which
\* is "active" too but of a ticker already stored
C2_Witness ==
  \E p \in Procs :
    /\ pc[p] = "done"
    /\ opened_count[p] = 1
    /\ Len(Appended(p)) = 1
    /\ \E i \in 1..Len(Fetched(p)) :
         /\ Fetched(p)[i].market_ticker \in TickersOf(store0[p])
         /\ Fetched(p)[i].market_status = "active"

\* tickers stored "active" at cycle start that the fetch lists as CLOSED
ClosedThisCycle(p) ==
  {t \in TickersOf(store0[p]) :
     /\ StatusMapGet(store0[p], t) = "active"
     /\ t \in FetchedClosed(p)}

\* C3: in a completed cycle whose fetch has unique tickers, the tickers deleted
\* are exactly those stored "active" at cycle start and fetched with a CLOSED
\* status; closed_count is their number and the table loses exactly them.
C3_ClosureSelectivity ==
  \A p \in Procs :
    (pc[p] = "done" /\ UniqueTickers(Fetched(p))) =>
      /\ Range(deleted[p]) = ClosedThisCycle(p)
      /\ closed_count[p] = Cardinality(ClosedThisCycle(p))
      /\ TickersOf(store0[p]) \ TickersOf(store) = ClosedThisCycle(p)
      /\ Cardinality(TickersOf(store0[p]) \ TickersOf(store)) = closed_count[p]

C3_Witness ==
  \E p \in Procs :
    /\ pc[p] = "done"
    /\ UniqueTickers(Fetched(p))
    /\ closed_count[p] = 1
    /\ Cardinality(TickersOf(store0[p])) = 2
    /\ TickersOf(store0[p]) \subseteq TickersOf(Fetched(p))

\* C4: in no cycle is a ticker both appended by the insert pass and deleted by
\* the closure pass, whatever the fetch holds.
C4_Disjointness ==
  \A p \in Procs :
    pc[p] # "start" => TickersOf(Appended(p)) \cap Range(deleted[p]) = {}

\* a completed cycle that fetched one ticker as "active" and as CLOSED and
\* appended it
C4_Witness ==
  \E p \in Procs :
    /\ pc[p] = "done"
    /\ \E t \in TickersOf(Appended(p)) : t \in FetchedClosed(p)

\* C5: a ticker stored at cycle start and not deleted by the closure pass keeps
\* its rows unchanged, no row of it is appended, and it is counted neither in
\* opened_count nor in closed_count.
C5_NoInPlaceUpdate ==
  \A p \in Procs :
    pc[p] # "start" =>
    \A t \in TickersOf(store0[p]) \ Range(deleted[p]) :
      /\ RowsOf(store, t) = RowsOf(store0[p], t)
      /\ RowsOf(new_active[p], t) = <<>>
      /\ RowsOf(Appended(p), t) = <<>>
      /\ opened_count[p] = Len(new_active[p])
      /\ closed_count[p] = Len(deleted[p])

\* a completed cycle that fetched a stored ticker under another event and with
\* a status that is neither "active" nor CLOSED
C5_Witness ==
  \E p \in Procs :
    /\ pc[p] = "done"
    /\ \E i \in 1..Len(Fetched(p)) :
         /\ Fetched(p)[i].market_ticker \in TickersOf(store0[p])
         /\ Fetched(p)[i].market_status = "initialized"
         /\ Fetched(p)[i].event_ticker = "E2"
         /\ Fetched(p)[i].market_ticker \in TickersOf(store)

RECURSIVE DeleteAll(_, _)
DeleteAll(rows, ts) ==
  IF ts = <<>> THEN rows ELSE DeleteAll(DeleteRows(rows, Head(ts)), Tail(ts))

\* positions of the DatabaseClient calls of the cycle of p that raised
FailedCalls(p) == {i \in 1..Len(calls[p]) : ~calls[p][i].ok}

\* C6: a DatabaseClient call that raises is the last call of its cycle and the
\* cycle ends failed without a summary; after a failed append_dataframe no
\* delete_market was called and the table is as at cycle start; after a failed
\* delete_market the table holds the rows at cycle start plus the appended
\* rows, less the tickers deleted before the failure.
C6_FailureSemantics ==
  \A p \in Procs :
    (pc[p] # "start" /\ FailedCalls(p) # {}) =>
      LET n == Len(calls[p]) IN
      /\ FailedCalls(p) = {n}
      /\ pc[p] = "failed"
      /\ total_active[p] = None
      /\ \A i \in 1..n : calls[p][i].op # "summary"
      /\ calls[p][n].op \in {"append_dataframe", "delete_market"}
      /\ calls[p][n].op = "append_dataframe" =>
           /\ \A i \in 1..n : calls[p][i].op # "delete_market"
           /\ store = store0[p]
      /\ calls[p][n].op = "delete_market" =>
           store = DeleteAll(store0[p] \o Appended(p), deleted[p])

\* a delete_market that raised after another delete had completed, the ticker
\* of the failed call still stored
C6_Witness ==
  \E p \in Procs :
    /\ raised[p] = "delete_market"
    /\ deleted[p] # <<>>
    /\ store # <<>>

RECURSIVE MarketCount(_)
MarketCount(evs) ==
  IF evs = <<>> THEN 0 ELSE Len(Head(evs).markets) + MarketCount(Tail(evs))

\* the pagination loop of the cycle of p was left without raising
LoopLeft(p) == pc[p] \notin {"start", "paginate"} /\ raised[p] # "get_open_events"

\* C8 (as claimed): for every fetched list of events the flattened table has
\* as many rows as the events have nested markets in total.
C8_RowCountLaw ==
  \A p \in Procs :
    LoopLeft(p) => Len(Flatten(events[p])) = MarketCount(events[p])

\* C9: when a page request raises, the cycle ends there: the request is not
\* repeated, no DatabaseClient call was made, and the table (its rows and its
\* existence) is as at cycle start.
C9_FetchFailureLeavesStore ==
  \A p \in Procs :
    raised[p] = "get_open_events" =>
      /\ pc[p] = "failed"
      /\ Len(reqs[p]) = Len(resps[p]) + 1
      /\ calls[p] = <<>>
      /\ store = store0[p]
      /\ tableExists = table0[p]

\* a later page request raising while the table does not exist yet
C9_Witness ==
  \E p \in Procs :
    /\ raised[p] = "get_open_events"
    /\ Len(reqs[p]) >= 2
    /\ ~table0[p]

\* C10: the first request carries no cursor; each further request carries the
\* cursor of the response before it, which is non-empty; every request is
\* answered once unless it raised; `events` is the concatenation of the pages'
\* events in request order; and the loop is left exactly when a response
\* carries an empty or absent cursor.
C10_Pagination ==
  \A p \in Procs :
    LET n == Len(reqs[p])
        m == Len(resps[p])
    IN /\ n >= 1 => reqs[p][1] = None
       /\ \A k \in 2..n : /\ reqs[p][k] = resps[p][k-1].cursor
                          /\ Truthy(resps[p][k-1].cursor)
       /\ m = IF raised[p] = "get_open_events" THEN n - 1 ELSE n
       /\ events[p] = Concat([k \in 1..m |-> resps[p][k].events])
       /\ \A k \in 1..(m-1) : Truthy(resps[p][k].cursor)
       /\ LoopLeft(p) <=> (m >= 1 /\ ~Truthy(resps[p][m].cursor))
       /\ pc[p] = "paginate" => cursor[p] = resps[p][m].cursor

\* two pages fetched, the second requested with the cursor of the first and
\* ending the loop with an absent cursor
C10_Witness ==
  \E p \in Procs :
    /\ pc[p] = "normalize"
    /\ Len(resps[p]) = 2
    /\ Len(events[p]) = 2
    /\ reqs[p][2] = "c1"
    /\ resps[p][2].cursor = None

\* the table a cycle that raises nowhere leaves, from table S and fetched rows d
OneCycle(S, d) ==
  LET ex == TickersOf(S)
      closing == SelectSeq(d, LAMBDA r : /\ r.market_ticker \in ex
                                         /\ StatusMapGet(S, r.market_ticker) = "active"
                                         /\ r.market_status \in CLOSED_STATUSES)
  IN DeleteAll(S \o SelectSeq(d, LAMBDA r : r.market_ticker \notin ex /\ r.market_status = "active"),
               [i \in 1..Len(closing) |-> closing[i].market_ticker])

\* the cycle of p completed on the listing of a cycle that failed in its
\* insert or closure pass
Healed(p) ==
  /\ pc[p] = "done"
  /\ base[p].raised \in {"append_dataframe", "delete_market"}

\* C7 (as claimed): a completed cycle that follows a cycle failed in its insert
\* or closure pass, on the same snapshot, leaves the table with the set of rows
\* one successful cycle would have left from the table before the failed cycle.
C7_SelfHealing ==
  \A p \in Procs :
    Healed(p) => Range(store) = Range(OneCycle(base[p].store, Fetched(p)))

\* C7 (amended): the same, for a snapshot whose flattened rows have unique
\* market tickers; the table is then the same row for row.
C7_SelfHealingUnique ==
  \A p \in Procs :
    (Healed(p) /\ UniqueTickers(Fetched(p))) =>
      store = OneCycle(base[p].store, Fetched(p))

\* a rerun that deleted what the failed cycle could not, the insert of the
\* failed cycle still in the table
C7_Witness ==
  \E p \in Procs :
    /\ Healed(p)
    /\ UniqueTickers(Fetched(p))
    /\ base[p].raised = "delete_market"
    /\ closed_count[p] >= 1
    /\ opened_count[p] = 0
    /\ TickersOf(store) \ TickersOf(base[p].store) # {}

\* the call p made in this step, if the step is a delete_market that returned
DeleteReturned(p) ==
  /\ Len(calls'[p]) = Len(calls[p]) + 1
  /\ calls'[p][Len(calls'[p])].op = "delete_market"
  /\ calls'[p][Len(calls'[p])].ok

\* C11: a delete_market call that returns leaves no row of its ticker and
\* keeps, in order, every row of every other ticker; when the ticker had no
\* row the call still returns (the run does not fail) and the table is as it
\* was.
C11_DeleteMarket ==
  [][\A p \in Procs :
       DeleteReturned(p) =>
         LET t == calls'[p][Len(calls'[p])].arg
         IN /\ RowsOf(store', t) = <<>>
            /\ \A u \in Tickers \ {t} : RowsOf(store', u) = RowsOf(store, u)
            /\ Len(store') = Len(store) - Len(RowsOf(store, t))
            /\ t \notin TickersOf(store) => store' = store
            /\ pc'[p] # "failed" /\ raised'[p] = None]_vars

\* delete_market returned twice for one ticker in a cycle, the second time
\* with no row of it left, and a row of another ticker is still stored
C11_Witness ==
  \E p \in Procs :
    /\ Len(deleted[p]) = 2
    /\ deleted[p][1] = deleted[p][2]
    /\ deleted[p][1] \in TickersOf(store0[p])
    /\ store # <<>>
\* the place of a store call in the cycle: connect, reads, append, deletes, summary
CallRank(op) ==
  CASE op = "_ensure_table" -> 0
    [] op \in {"get_existing_market_tickers", "get_market_status_map"} -> 1
    [] op = "append_dataframe" -> 2
    [] op = "delete_market" -> 3
    [] op = "summary" -> 4

CallsOf(p, op) == {i \in 1..Len(calls[p]) : calls[p][i].op = op}

\* C12: in every cycle the store calls come in the order reads, append,
\* deletes, summary re-read, with one append at most; what the cycle read is
\* the table of cycle start; every delete_market is for a ticker stored
\* "active" at cycle start, never for one the cycle itself appended; and the
\* total reported is the ticker count of the table after the last delete.
C12_TwoPassOrdering ==
  \A p \in Procs :
    /\ \A i, j \in 1..Len(calls[p]) :
         i < j => CallRank(calls[p][i].op) <= CallRank(calls[p][j].op)
    /\ Cardinality(CallsOf(p, "append_dataframe")) <= 1
    /\ Cardinality(CallsOf(p, "summary")) <= 1
    /\ pc[p] \in {"insert", "closure", "done"} =>
         /\ existing[p] = TickersOf(store0[p])
         /\ status_map[p] = StatusMap(store0[p])
    /\ \A i \in CallsOf(p, "delete_market") :
         /\ calls[p][i].arg \in TickersOf(store0[p])
         /\ StatusMapGet(store0[p], calls[p][i].arg) = "active"
         /\ calls[p][i].arg \notin TickersOf(Appended(p))
    /\ pc[p] = "done" =>
         /\ calls[p][Len(calls[p])].op = "summary"
         /\ total_active[p] = Cardinality(TickersOf(store))

\* a completed cycle that read, appended, deleted and re-read, in that order
C12_Witness ==
  \E p \in Procs :
    /\ pc[p] = "done"
    /\ CallsOf(p, "append_dataframe") # {}
    /\ CallsOf(p, "delete_market") # {}
    /\ \A i \in CallsOf(p, "append_dataframe"), j \in CallsOf(p, "delete_market") : i < j

\* C13: no row of the table ever carries a status-change timestamp.
C13_StampNeverPersisted ==
  \A i \in 1..Len(store) : store[i].market_status_change_time = None

\* a later cycle stamped a fetched row in memory and deleted its ticker, and
\* rows of other tickers are still stored
C13_Witness ==
  \E p \in Procs :
    /\ pc[p] = "done"
    /\ cycle[p] > 1
    /\ deleted[p] # <<>>
    /\ \E i \in 1..Len(df[p]) : df[p][i].market_status_change_time = Now
    /\ store # <<>>

\* C14: in a completed cycle whose fetched rows have unique tickers, on a
\* table whose rows had unique tickers at cycle start, total_active is the
\* number of tickers stored at cycle start plus opened_count minus
\* closed_count.
C14_CountConservation ==
  \A p \in Procs :
    (pc[p] = "done" /\ UniqueTickers(Fetched(p)) /\ UniqueTickers(store0[p])) =>
      total_active[p] = Cardinality(TickersOf(store0[p])) + opened_count[p] - closed_count[p]

\* such a cycle that opened one ticker and closed another
C14_Witness ==
  \E p \in Procs :
    /\ pc[p] = "done"
    /\ UniqueTickers(Fetched(p))
    /\ UniqueTickers(store0[p])
    /\ opened_count[p] = 1
    /\ closed_count[p] = 1
    /\ total_active[p] = Cardinality(TickersOf(store0[p]))

\* C15: from the empty store, through sequential cycles (completed or
\* failed) whose fetched rows have unique tickers, no two rows of the table
\* have the same market ticker.
C15_StoreTickerUniqueness == UniqueTickers(store)

\* a later cycle completed on a listing that shows, "active", a ticker
\* already stored and one that is not: one row appended, two rows stored
C15_Witness ==
  \E p \in Procs :
    /\ pc[p] = "done"
    /\ cycle[p] > 1
    /\ \E i \in 1..Len(Fetched(p)) :
         /\ Fetched(p)[i].market_ticker \in TickersOf(store0[p])
         /\ Fetched(p)[i].market_status = "active"
    /\ opened_count[p] = 1
    /\ Len(store) = 2

\* C16: from the empty store, through any sequence of cycles, every row of
\* the table has market_status "active", and the status map a cycle read
\* gives "active" for every ticker of the ticker set it read.
C16_StoredStatusActive ==
  /\ \A i \in 1..Len(store) : store[i].market_status = "active"
  /\ \A p \in Procs :
       \A t \in existing[p] : DictGet(status_map[p], t) = "active"

\* a later cycle whose closure pass found a stored ticker fetched as CLOSED
\* and deleted it
C16_Witness ==
  \E p \in Procs :
    /\ cycle[p] > 1
    /\ pc[p] = "done"
    /\ existing[p] # {}
    /\ \E t \in existing[p] : t \in FetchedClosed(p) /\ t \in Range(deleted[p])

\* the cycle of p runs on the listing of the cycle before it, which completed
SecondOfTwo(p) == base[p].raised = None

\* the cycle of p has called neither append_dataframe nor delete_market, the
\* table is as the cycle found it, and its counts, once reported, are zero
NothingDone(p) ==
  /\ CallsOf(p, "append_dataframe") = {}
  /\ CallsOf(p, "delete_market") = {}
  /\ store = store0[p]
  /\ pc[p] = "done" => opened_count[p] = 0 /\ closed_count[p] = 0

\* C17 (as claimed): a cycle that follows a completed cycle and fetches the
\* same listing appends nothing, deletes nothing and leaves the table as it
\* found it.
C17_CycleIdempotence ==
  \A p \in Procs : SecondOfTwo(p) => NothingDone(p)

\* C17 (amended): the same, for listings whose fetched rows have unique
\* tickers.
C17_CycleIdempotenceUnique ==
  \A p \in Procs :
    (SecondOfTwo(p) /\ UniqueTickers(Fetched(p))) => NothingDone(p)

\* the first cycle appended one ticker and deleted another, and the second
\* cycle completed on the same listing, which has unique tickers
C17_Witness ==
  \E p \in Procs :
    /\ SecondOfTwo(p)
    /\ pc[p] = "done"
    /\ UniqueTickers(Fetched(p))
    /\ FetchedClosed(p) \cap TickersOf(base[p].store) # {}
    /\ FetchedOpen(p) \ TickersOf(base[p].store) # {}
    /\ TickersOf(store) # TickersOf(base[p].store)

\* the fetch of p lists ticker t with status "active"
FetchedActive(p, t) ==
  \E i \in 1..Len(Fetched(p)) :
    Fetched(p)[i].market_ticker = t /\ Fetched(p)[i].market_status = "active"

\* C18: when two cycles on one table have both read a ticker set without
\* ticker t, both fetched t as "active" and both finished their insert pass,
\* each of them appended a row of t and the table holds two rows of t at
\* least.
C18_OverlapDuplicates ==
  \A p, q \in Procs : \A t \in Tickers :
    ( /\ p # q
      /\ InsertDone(p) /\ InsertDone(q)
      /\ t \notin existing[p] /\ t \notin existing[q]
      /\ FetchedActive(p, t) /\ FetchedActive(q, t) )
    => /\ t \in TickersOf(Appended(p))
       /\ t \in TickersOf(Appended(q))
       /\ Len(RowsOf(store, t)) >= 2

\* two overlapping cycles completed on a listing with unique tickers, each
\* with one ticker opened, and the table holds that ticker twice
C18_Witness ==
  /\ \A p \in Procs :
       /\ pc[p] = "done"
       /\ UniqueTickers(Fetched(p))
       /\ opened_count[p] = 1
       /\ existing[p] = {}
  /\ Len(store) = 2
  /\ ~UniqueTickers(store)
====
